---- MODULE Spec2Model ----
(***************************************************************************)
(* Traveling-Salesman: the nearest-neighbour heuristic                     *)
(* (src/src/nearestneighbor.c) and the Held-Karp dynamic programme         *)
(* (src/src/heldkarp.c) over one cost matrix.                              *)
(*                                                                         *)
(* SIZE is a #define of the build (src/include/tsp.h:28, 15 there).  The   *)
(* tables of held_karp have 2^SIZE rows, so the model draws the build's    *)
(* SIZE in Init (SmallSIZE nodes, and in SpecWide also a build whose SIZE  *)
(* no longer fits the int subset mask) and never changes it.  SpecMid is   *)
(* the build of one node more, in which a subset has several paths between *)
(* the same ends; SpecInstance is the builds of three given instances of   *)
(* one, four and five nodes.                                               *)
(*                                                                         *)
(* SpecLoop is the presentation loop (src/src/main_loop.c): one behaviour  *)
(* is one call of main_loop() over the keys it reads.  init_tsp_data,      *)
(* destroy_tsp_data and generate_example are declared in tsp.h only; the   *)
(* loop is modelled with what it does to g_data, and the solver state      *)
(* stays as it was.                                                        *)
(*                                                                         *)
(* One behaviour is one run of the two calls of main(), for one cost       *)
(* matrix and one start: first nearest_neighbor(dist), then                *)
(* held_karp(dist, start).                                                 *)
(***************************************************************************)
EXTENDS Integers, Sequences, FiniteSets, TLC

VARIABLES
    SIZE,        \* #define SIZE of this build
    dist,        \* int **dist: the caller's cost matrix
    start,       \* the start argument of held_karp
    pc,          \* position of the run
    visited,     \* nearest_neighbor: bool visited[SIZE]
    nn_path,     \* nearest_neighbor: int path[SIZE]
    nn_i,        \* nearest_neighbor: i
    nn_cur,      \* nearest_neighbor: cur
    nn_cost,     \* nearest_neighbor: cost
    nn_ret,      \* what nearest_neighbor returned
    dp,          \* held_karp: int **dp (row contents)
    prev,        \* held_karp: int **prev (row contents)
    hk_path,     \* held_karp: int path[SIZE + 1]
    subset,      \* held_karp: subset of the fill loop
    result,      \* held_karp: result
    end,         \* held_karp: end
    cur,         \* held_karp: cur
    hk_i,        \* held_karp: i of the backtrack loop
    hk_ret,      \* what held_karp returned
    tabs,        \* heap: the two top-level blocks dp and prev
    rows,        \* heap: the row blocks dp[i] and prev[i]
    alloc_failed, \* history: some malloc of this call returned NULL
    g_state,     \* main_loop.c: int g_state
    g_data,      \* main_loop.c: TSP_Data *g_data (0 is NULL)
    tsp_datas,   \* heap: every TSP_Data made by init_tsp_data
    ml_pc,       \* position of main_loop
    running,     \* main_loop: running
    ch,          \* handle_events: ch, the key read last
    keys         \* number of keys read

vars == <<SIZE, dist, start, pc, visited, nn_path, nn_i, nn_cur, nn_cost,
          nn_ret, dp, prev, hk_path, subset, result, end, cur, hk_i, hk_ret,
          tabs, rows, alloc_failed, g_state, g_data, tsp_datas, ml_pc,
          running, ch, keys>>

nnvars == <<visited, nn_path, nn_i, nn_cur, nn_cost, nn_ret>>
hkvars == <<dp, prev, hk_path, subset, result, end, cur, hk_i, hk_ret>>
heapvars == <<tabs, rows, alloc_failed>>
inputs == <<SIZE, dist, start>>
uivars == <<g_state, g_data, tsp_datas, ml_pc, running, ch, keys>>
solvervars == <<pc, nnvars, hkvars, heapvars, inputs>>

----------------------------------------------------------------------------
(* Bounds of the model and constants of the program *)

\* Nodes of the ordinary build (SIZE of tsp.h scaled down).
SmallSIZE == 3
\* The cost matrices drawn differ from the uniform matrix in at most MaxOdd
\* off-diagonal entries.
MaxOdd == 2

\* Keys read by one run of main_loop.
MaxKeys == 6

INT_MAX == 2147483647
\* Width of int: the subset mask is an int.
IntBits == 32
\* int cost = 999 of find_nearest_neighbor.
NN_INIT_COST == 999

\* A build whose 1 << SIZE is not representable in int.
WideSIZE == IntBits - 1
\* The largest SIZE for which 1 << SIZE is an int.
MaxMaskNodes == IntBits - 2

\* An int that was never written (malloc'ed memory, an uninitialised local).
UNINIT == 0 - 1

Nodes == 0 .. (SIZE - 1)

\* What reading an int yields: a written int is itself; an unwritten one is
\* any value, in range or (SIZE stands for all of them) out of range.
ReadInt(v) == IF v = UNINIT THEN 0 .. SIZE ELSE {v}

\* int addition.  A sum outside the int range wraps (two's complement); no
\* run on a matrix of small costs with a zero diagonal produces one.
AddInt(a, b) ==
    IF b > 0 /\ a > INT_MAX - b
    THEN (a - INT_MAX - 1) + (b - INT_MAX - 1)
    ELSE IF b < 0 /\ a < (0 - INT_MAX - 1) - b
    THEN (a + INT_MAX + 1) + (b + INT_MAX + 1)
    ELSE a + b

\* 1 << k, for a k the int can hold.
Shl1(k) == 2 ^ k

\* subset & (1 << k)
HasBit(s, k) == (s \div Shl1(k)) % 2 = 1

\* subset ^ (1 << k)
FlipBit(s, k) == IF HasBit(s, k) THEN s - Shl1(k) ELSE s + Shl1(k)

\* 1 << SIZE: the number of rows of dp and prev.
NumSubsets == Shl1(SIZE)

\* (1 << SIZE) - 1
FullSubset == Shl1(SIZE) - 1

----------------------------------------------------------------------------
(* The inputs *)

OffDiag(n) == {p \in (0 .. n - 1) \X (0 .. n - 1) : p[1] # p[2]}

\* Entries that replace the uniform cost: a cheap edge, and an edge as dear
\* as the initial cost of find_nearest_neighbor.
OddCosts == {1, NN_INIT_COST}

OddSets(n) ==
    IF n > SmallSIZE THEN {{}}
    ELSE {K \in SUBSET OffDiag(n) : Cardinality(K) <= MaxOdd}

\* Non-negative, zero diagonal, not necessarily symmetric.
CostMatrix(n, K, w) ==
    [i \in 0 .. n - 1 |->
        [j \in 0 .. n - 1 |->
            IF i = j THEN 0
            ELSE IF <<i, j>> \in K THEN w[<<i, j>>]
            ELSE 2]]

NoPath == [kind |-> "pending", path |-> <<>>, cost |-> 0]

\* Before the first call: no local of either solver exists yet.
InitLocals ==
    /\ pc = "nn_entry"
    /\ visited = <<>>
    /\ nn_path = <<>>
    /\ nn_i = 0
    /\ nn_cur = 0
    /\ nn_cost = 0
    /\ nn_ret = NoPath
    /\ dp = <<>>
    /\ prev = <<>>
    /\ hk_path = <<>>
    /\ subset = UNINIT
    /\ result = UNINIT
    /\ end = UNINIT
    /\ cur = UNINIT
    /\ hk_i = UNINIT
    /\ hk_ret = NoPath
    /\ tabs = [dp |-> "none", prev |-> "none"]
    /\ rows = <<>>
    /\ alloc_failed = FALSE

\* enum AppStates
STATE_MENU == 0
STATE_EXAMPLE == 1
STATE_INFO == 2

\* NULL
NULL == 0

\* int g_state = STATE_MENU; TSP_Data *g_data = NULL; no key read yet.
InitGlobals ==
    /\ g_state = STATE_MENU
    /\ g_data = NULL
    /\ tsp_datas = <<>>
    /\ running = FALSE
    /\ ch = "none"
    /\ keys = 0

\* A program that calls the solvers directly and has no main_loop.
InitNoLoop ==
    /\ InitGlobals
    /\ ml_pc = "ml_off"

InitBuild(sizes) ==
    /\ SIZE \in sizes
    /\ \E K \in OddSets(SIZE) : \E w \in [K -> OddCosts] :
           dist = CostMatrix(SIZE, K, w)
    /\ start \in 0 .. SIZE - 1
    /\ InitLocals
    /\ InitNoLoop

Init == InitBuild({SmallSIZE})

InitWide == InitBuild({SmallSIZE, WideSIZE})

\* A build of one node more, whose subsets admit several paths between the
\* same two ends.  Its matrices differ from the uniform matrix in at most
\* one off-diagonal entry.
MidSIZE == SmallSIZE + 1

SingleOddSets(n) == {{}} \cup {{e} : e \in OffDiag(n)}

InitMid ==
    /\ SIZE = MidSIZE
    /\ \E K \in SingleOddSets(SIZE) : \E w \in [K -> OddCosts] :
           dist = CostMatrix(SIZE, K, w)
    /\ start \in 0 .. SIZE - 1
    /\ InitLocals
    /\ InitNoLoop

\* A matrix written as rows, indexed from 0 as dist[i][j] is.
FromRows(M) ==
    [i \in 0 .. Len(M) - 1 |-> [j \in 0 .. Len(M) - 1 |-> M[i + 1][j + 1]]]

\* The one-node instance.
SingleNode == FromRows(<< <<0>> >>)

\* The symmetric four-node instance.
FourNodes ==
    FromRows(<< <<0, 10, 15, 20>>,
                <<10, 0, 35, 25>>,
                <<15, 35, 0, 30>>,
                <<20, 25, 30, 0>> >>)

\* Five nodes on a line: the cost of an edge is the distance of its ends.
LinePositions == <<0, 1, 2, 3, 10>>
Distance(a, b) == IF a < b THEN b - a ELSE a - b
LineNodes ==
    [i \in 0 .. Len(LinePositions) - 1 |->
        [j \in 0 .. Len(LinePositions) - 1 |->
            Distance(LinePositions[i + 1], LinePositions[j + 1])]]

\* Builds whose SIZE and dist are those of the three instances; the call is
\* held_karp(dist, 0) as in main().
Instances == {SingleNode, FourNodes, LineNodes}

InitInstance ==
    /\ dist \in Instances
    /\ SIZE = Cardinality(DOMAIN dist)
    /\ start = 0
    /\ InitLocals
    /\ InitNoLoop

----------------------------------------------------------------------------
(* nearest_neighbor *)

RECURSIVE FnnScan(_, _, _, _, _, _)
FnnScan(i, c, table, vis, cost, next) ==
    IF i >= SIZE THEN next
    ELSE IF (i # c) /\ ~vis[i] /\ table[c][i] < cost
         THEN FnnScan(i + 1, c, table, vis, table[c][i], i)
         ELSE FnnScan(i + 1, c, table, vis, cost, next)

find_nearest_neighbor(c, table, vis) ==
    FnnScan(0, c, table, vis, NN_INIT_COST, c)

\* int cur = 0; // Start at A, this could be passed in
NNStart == 0

\* Mutant of NNClose: the return edge is forgotten.
NNClose_NoReturn(cost, c, d) == cost

\* cost += dist[cur][0]; // Add in the cost of the return
NNClose(cost, c, d) == AddInt(cost, d[c][0])

\* The declarations, visited[cur] = true and path[0] = cur.
NN_Enter ==
    /\ pc = "nn_entry"
    /\ visited' = [k \in Nodes |-> k = NNStart]
    /\ nn_path' = [k \in Nodes |-> IF k = 0 THEN NNStart ELSE UNINIT]
    /\ nn_cur' = NNStart
    /\ nn_cost' = 0
    /\ nn_i' = 1
    /\ pc' = "nn_loop"
    /\ UNCHANGED <<nn_ret, hkvars, heapvars, inputs, uivars>>

\* Mutant of NN_Step: the edge taken is struck out of the caller's matrix.
NN_Step_StrikesEdge ==
    /\ pc = "nn_loop"
    /\ nn_i < SIZE
    /\ LET next == find_nearest_neighbor(nn_cur, dist, visited)
       IN  /\ nn_path' = [nn_path EXCEPT ![nn_i] = next]
           /\ nn_cost' = AddInt(nn_cost, dist[nn_cur][next])
           /\ nn_cur' = next
           /\ visited' = [visited EXCEPT ![next] = TRUE]
           /\ dist' = [dist EXCEPT ![nn_cur][next] = NN_INIT_COST]
    /\ nn_i' = nn_i + 1
    /\ UNCHANGED <<pc, nn_ret, hkvars, heapvars, SIZE, start, uivars>>

\* One iteration of for(i = 1; i < SIZE; i++).
NN_Step ==
    /\ pc = "nn_loop"
    /\ nn_i < SIZE
    /\ LET next == find_nearest_neighbor(nn_cur, dist, visited)
       IN  /\ nn_path' = [nn_path EXCEPT ![nn_i] = next]
           /\ nn_cost' = AddInt(nn_cost, dist[nn_cur][next])
           /\ nn_cur' = next
           /\ visited' = [visited EXCEPT ![next] = TRUE]
    /\ nn_i' = nn_i + 1
    /\ UNCHANGED <<pc, nn_ret, hkvars, heapvars, inputs, uivars>>

\* The return edge and return make_tsp_path(path,cost).
NN_Return ==
    /\ pc = "nn_loop"
    /\ nn_i >= SIZE
    /\ nn_cost' = NNClose(nn_cost, nn_cur, dist)
    /\ nn_ret' = [kind |-> "path", path |-> nn_path, cost |-> nn_cost']
    /\ pc' = "hk_entry"
    /\ UNCHANGED <<visited, nn_path, nn_i, nn_cur, hkvars, heapvars,
                   inputs, uivars>>

----------------------------------------------------------------------------
(* held_karp *)

\* Mutant of AllocFailed: only the first pointer is tested.
AllocFailed_FirstOnly(a, b) == a = "null"

\* if(!dp || !prev), if(!(dp[i]) || !(prev[i]))
AllocFailed(a, b) == a = "null" \/ b = "null"

MallocOutcomes == {"null", "live"}

\* dp = malloc(..); prev = malloc(..); if(!dp || !prev) return NULL;
\* In a build whose SIZE does not fit the mask, 1 << SIZE is undefined: the
\* calls are made with whatever size results, and what follows two
\* successful calls is a crash.
HK_AllocTables ==
    /\ pc = "hk_entry"
    /\ \E a \in MallocOutcomes, b \in MallocOutcomes :
        /\ tabs' = [dp |-> a, prev |-> b]
        /\ alloc_failed' = (a = "null" \/ b = "null")
        /\ IF AllocFailed(a, b)
           THEN /\ pc' = "hk_null"
                /\ hk_ret' = [kind |-> "null", path |-> <<>>, cost |-> 0]
           ELSE /\ pc' = IF SIZE > MaxMaskNodes THEN "hk_crash" ELSE "hk_rows"
                /\ hk_ret' = hk_ret
    /\ result' = INT_MAX
    /\ hk_path' = [k \in 0 .. SIZE |-> UNINIT]
    /\ UNCHANGED <<dp, prev, subset, end, cur, hk_i, rows, nnvars,
                   inputs, uivars>>

\* The row loop: rows 0 .. f-1 are allocated; at row f (if f is a row) one
\* of the two calls, or both, return NULL and held_karp returns NULL.
HK_AllocRows ==
    /\ pc = "hk_rows"
    /\ \E f \in 0 .. NumSubsets, a \in MallocOutcomes, b \in MallocOutcomes :
        /\ (f = NumSubsets) = (a = "live" /\ b = "live")
        /\ rows' = [i \in 0 .. NumSubsets - 1 |->
                      IF i < f THEN [dp |-> "live", prev |-> "live"]
                      ELSE IF i = f THEN [dp |-> a, prev |-> b]
                      ELSE [dp |-> "none", prev |-> "none"]]
        /\ alloc_failed' = (a = "null" \/ b = "null")
        /\ IF f < NumSubsets /\ AllocFailed(a, b)
           THEN /\ pc' = "hk_null"
                /\ hk_ret' = [kind |-> "null", path |-> <<>>, cost |-> 0]
                /\ UNCHANGED <<dp, prev>>
           ELSE /\ pc' = "hk_init"
                /\ hk_ret' = hk_ret
                /\ dp' = [s \in 0 .. NumSubsets - 1 |-> [k \in Nodes |-> UNINIT]]
                /\ prev' = [s \in 0 .. NumSubsets - 1 |-> [k \in Nodes |-> UNINIT]]
    /\ UNCHANGED <<hk_path, subset, result, end, cur, hk_i, tabs, nnvars,
                   inputs, uivars>>

\* Mutant of StartSubset: the row of node 0, whatever the start.
StartSubset_NodeZero(s) == Shl1(0)

\* dp[1 << start][start] = 0: the row of the start.
StartSubset(s) == Shl1(s)

\* Mutant of InitDp: the cost of the starting point is not stored.
InitDp_NoStart(s) ==
    [ss \in 0 .. NumSubsets - 1 |-> [k \in Nodes |-> INT_MAX]]

\* The fill with INT_MAX and the cost of the starting point.
InitDp(s) ==
    [ss \in 0 .. NumSubsets - 1 |->
        [k \in Nodes |-> IF ss = StartSubset(s) /\ k = s THEN 0 ELSE INT_MAX]]

HK_InitTable ==
    /\ pc = "hk_init"
    /\ dp' = InitDp(start)
    /\ subset' = 0
    /\ pc' = "hk_fill"
    /\ UNCHANGED <<prev, hk_path, result, end, cur, hk_i, hk_ret, heapvars,
                   nnvars, inputs, uivars>>

\* Mutant of Reachable: the test against INT_MAX is dropped.
Reachable_Always(v) == TRUE

\* if (dp[subset ^ (1 << last)][i] != INT_MAX)
Reachable(v) == v # INT_MAX

\* Mutant of EdgeCost: the indices are swapped.
EdgeCost_Transposed(d, i, last) == d[last][i]

\* dist[i][last]
EdgeCost(d, i, last) == d[i][last]

\* Mutant of Better: an equal cost also replaces the entry.
Better_OrEqual(newcost, old) == newcost <= old

\* if(newcost < dp[subset][last])
Better(newcost, old) == newcost < old

\* Mutant of TrackPrev: last is stored instead of i.
TrackPrev_Last(i, last) == last

\* prev[subset][last] = i; // track path
TrackPrev(i, last) == i

\* The loop over i for one (subset, last): acc is dp[subset][last] and
\* prev[subset][last].
RECURSIVE Relax(_, _, _, _, _, _)
Relax(dpT, d, ss, last, i, acc) ==
    IF i >= SIZE THEN acc
    ELSE IF i = last \/ ~HasBit(ss, i) THEN Relax(dpT, d, ss, last, i + 1, acc)
    ELSE IF Reachable(dpT[FlipBit(ss, last)][i])
         THEN LET newcost == AddInt(dpT[FlipBit(ss, last)][i], EdgeCost(d, i, last))
              IN  IF Better(newcost, acc.c)
                  THEN Relax(dpT, d, ss, last, i + 1,
                             [c |-> newcost, p |-> TrackPrev(i, last)])
                  ELSE Relax(dpT, d, ss, last, i + 1, acc)
         ELSE Relax(dpT, d, ss, last, i + 1, acc)

\* The rows dp[subset ^ (1 << last)] the transitions of one subset read: one
\* for every last of the subset that has another node i of the subset.
RowsRead(ss) ==
    {FlipBit(ss, last) :
        last \in {l \in Nodes :
                     HasBit(ss, l) /\ \E i \in Nodes : i # l /\ HasBit(ss, i)}}

\* Mutant of FillSubset: the subsets are taken from the largest down.
FillSubset_Descending(T, d, ss) ==
    LET down == NumSubsets - 1 - ss
        r == [last \in Nodes |->
                IF HasBit(down, last)
                THEN Relax(T.dp, d, down, last, 0,
                           [c |-> T.dp[down][last], p |-> T.prev[down][last]])
                ELSE [c |-> T.dp[down][last], p |-> T.prev[down][last]]]
    IN  [dp   |-> [T.dp EXCEPT ![down] = [last \in Nodes |-> r[last].c]],
         prev |-> [T.prev EXCEPT ![down] = [last \in Nodes |-> r[last].p]]]

\* The dp entries to which the transitions of one subset add an edge cost:
\* those that pass the test against INT_MAX.
TransitionOperands(dpT, ss) ==
    {dpT[FlipBit(ss, p[1])][p[2]] :
        p \in {q \in Nodes \X Nodes :
                  /\ HasBit(ss, q[1])
                  /\ q[2] # q[1] /\ HasBit(ss, q[2])
                  /\ Reachable(dpT[FlipBit(ss, q[1])][q[2]])}}

\* One iteration of the loop over subset: every last of the subset.  The
\* entries read are of the rows subset ^ (1 << last), never of row subset.
FillSubset(T, d, ss) ==
    LET r == [last \in Nodes |->
                IF HasBit(ss, last)
                THEN Relax(T.dp, d, ss, last, 0,
                           [c |-> T.dp[ss][last], p |-> T.prev[ss][last]])
                ELSE [c |-> T.dp[ss][last], p |-> T.prev[ss][last]]]
    IN  [dp   |-> [T.dp EXCEPT ![ss] = [last \in Nodes |-> r[last].c]],
         prev |-> [T.prev EXCEPT ![ss] = [last \in Nodes |-> r[last].p]]]

HK_Fill ==
    /\ pc = "hk_fill"
    /\ subset < NumSubsets
    /\ LET T == FillSubset([dp |-> dp, prev |-> prev], dist, subset)
       IN  /\ dp' = T.dp
           /\ prev' = T.prev
    /\ subset' = subset + 1
    /\ UNCHANGED <<pc, hk_path, result, end, cur, hk_i, hk_ret, heapvars,
                   nnvars, inputs, uivars>>

\* Mutant of ClosingEdge: the indices are swapped.
ClosingEdge_Transposed(d, last, s) == d[s][last]

\* dist[last][start]
ClosingEdge(d, last, s) == d[last][s]

\* The dp entries to which the closing loop adds an edge cost: one for every
\* last from 0 to SIZE - 1, untested.
ClosingOperands(dpT) == {dpT[FullSubset][last] : last \in Nodes}

\* Mutant of CloseTour: an equal cost also replaces result and end.
RECURSIVE CloseTour_LastWins(_, _, _, _, _)
CloseTour_LastWins(dpT, d, s, last, acc) ==
    IF last >= SIZE THEN acc
    ELSE LET cost == AddInt(dpT[FullSubset][last], ClosingEdge(d, last, s))
         IN  IF cost <= acc.result
             THEN CloseTour_LastWins(dpT, d, s, last + 1,
                                     [result |-> cost, end |-> last])
             ELSE CloseTour_LastWins(dpT, d, s, last + 1, acc)

\* for(last = 0; last < SIZE; last++): acc is result and end.
RECURSIVE CloseTour(_, _, _, _, _)
CloseTour(dpT, d, s, last, acc) ==
    IF last >= SIZE THEN acc
    ELSE LET cost == AddInt(dpT[FullSubset][last], ClosingEdge(d, last, s))
         IN  IF cost < acc.result
             THEN CloseTour(dpT, d, s, last + 1, [result |-> cost, end |-> last])
             ELSE CloseTour(dpT, d, s, last + 1, acc)

\* The closing loop, cur = (1 << SIZE) - 1 and the head of the backtrack loop.
HK_Close ==
    /\ pc = "hk_fill"
    /\ subset >= NumSubsets
    /\ LET r == CloseTour(dp, dist, start, 0, [result |-> result, end |-> end])
       IN  /\ result' = r.result
           /\ end' = r.end
    /\ cur' = FullSubset
    /\ hk_i' = SIZE - 1
    /\ pc' = "hk_back"
    /\ UNCHANGED <<dp, prev, hk_path, subset, hk_ret, heapvars, nnvars,
                   inputs, uivars>>

\* Mutant of NextSubset: the bit of end stays in cur.
NextSubset_Keep(c, e) == c

\* next = cur ^ (1 << end);
NextSubset(c, e) == FlipBit(c, e)

\* One iteration of for(i = SIZE - 1; i > 0; i--).  An end that was never
\* written is any int; one out of range indexes outside prev[cur].
HK_Backtrack ==
    /\ pc = "hk_back"
    /\ hk_i > 0
    /\ \E e \in ReadInt(end) :
        IF e \in Nodes
        THEN /\ hk_path' = [hk_path EXCEPT ![hk_i] = e]
             /\ end' = prev[cur][e]
             /\ cur' = NextSubset(cur, e)
             /\ hk_i' = hk_i - 1
             /\ pc' = pc
        ELSE /\ pc' = "hk_crash"
             /\ UNCHANGED <<hk_path, end, cur, hk_i>>
    /\ UNCHANGED <<dp, prev, subset, result, hk_ret, heapvars, nnvars,
                   inputs, uivars>>

\* if(p) free(p): a live block is freed, a freed one is freed again.
FreeBlock(st) ==
    IF st = "live" THEN "freed"
    ELSE IF st = "freed" THEN "dfree"
    ELSE st

\* path[0] = start, the free loop, free(dp), free(prev) and the return of
\* make_tsp_path(path, result).
HK_Return ==
    /\ pc = "hk_back"
    /\ hk_i <= 0
    /\ hk_path' = [hk_path EXCEPT ![0] = start]
    /\ rows' = [i \in DOMAIN rows |->
                  [dp |-> FreeBlock(rows[i].dp), prev |-> FreeBlock(rows[i].prev)]]
    /\ tabs' = [dp |-> FreeBlock(tabs.dp), prev |-> FreeBlock(tabs.prev)]
    /\ hk_ret' = [kind |-> "path", path |-> hk_path', cost |-> result]
    /\ pc' = "done"
    /\ UNCHANGED <<dp, prev, subset, result, end, cur, hk_i, alloc_failed,
                   nnvars, inputs, uivars>>

\* held_karp as a function of its arguments: the cost it returns when every
\* allocation succeeds.
RECURSIVE FillAll(_, _, _)
FillAll(T, d, ss) ==
    IF ss >= NumSubsets THEN T ELSE FillAll(FillSubset(T, d, ss), d, ss + 1)

HeldKarpCost(d, s) ==
    LET T0 == [dp   |-> InitDp(s),
               prev |-> [ss \in 0 .. NumSubsets - 1 |-> [k \in Nodes |-> UNINIT]]]
    IN  CloseTour(FillAll(T0, d, 0).dp, d, s, 0,
                  [result |-> INT_MAX, end |-> UNINIT]).result

----------------------------------------------------------------------------

Next ==
    \/ NN_Enter
    \/ NN_Step
    \/ NN_Return
    \/ HK_AllocTables
    \/ HK_AllocRows
    \/ HK_InitTable
    \/ HK_Fill
    \/ HK_Close
    \/ HK_Backtrack
    \/ HK_Return

Spec == Init /\ [][Next]_vars

SpecWide == InitWide /\ [][Next]_vars

SpecInstance == InitInstance /\ [][Next]_vars

SpecMid == InitMid /\ [][Next]_vars

----------------------------------------------------------------------------
(* main_loop (src/src/main_loop.c) *)

\* The keys told apart by handle_events; "x" is any other key.
Keys == {"a", "b", "q", "n", "x"}

\* init_tsp_data is not part of the sources at hand: the counter of the
\* TSP_Data it returns is some position of the path.
InitPosValues == 0 .. SIZE

\* init_tsp_data(): a new TSP_Data, holding no example yet.
init_tsp_data(D, p) ==
    Append(D, [st |-> "live", generated |-> FALSE, pos |-> p])

\* destroy_tsp_data(data): the block is freed and what it held is gone.
destroy_tsp_data(D, g) ==
    [D EXCEPT ![g] = [st |-> FreeBlock(@.st), generated |-> FALSE,
                      pos |-> UNINIT]]

\* generate_example(): g_data holds a matrix and the two tours of it.
generate_example(D, g) == [D EXCEPT ![g].generated = TRUE]

\* Mutant of OnNewExample: no example is generated for the new g_data.
OnNewExample_NoGenerate(D, g, p) ==
    LET D1 == destroy_tsp_data(D, g)
        D2 == init_tsp_data(D1, p)
    IN  [datas |-> D2, g |-> Len(D2)]

\* case 'n': destroy_tsp_data(g_data); g_data = init_tsp_data();
\* generate_example();
OnNewExample(D, g, p) ==
    LET D1 == destroy_tsp_data(D, g)
        D2 == init_tsp_data(D1, p)
    IN  [datas |-> generate_example(D2, Len(D2)), g |-> Len(D2)]

\* What handle_events does to g_data and the heap.
EventData(D, g, gs, c, p) ==
    IF gs = STATE_MENU /\ c = "a" THEN [datas |-> generate_example(D, g), g |-> g]
    ELSE IF gs = STATE_EXAMPLE /\ c = "n" THEN OnNewExample(D, g, p)
    ELSE [datas |-> D, g |-> g]

\* What handle_events does to g_state.
EventState(gs, c) ==
    IF gs = STATE_MENU
    THEN IF c = "a" THEN STATE_EXAMPLE
         ELSE IF c = "b" THEN STATE_INFO
         ELSE gs
    ELSE IF gs = STATE_INFO THEN STATE_MENU
    ELSE gs

\* Mutant of EventResult: 'q' ends the loop in every state.
EventResult_QuitAnywhere(gs, c) == c # "q"

\* The result of handle_events: false for 'q' in the menu and the example.
EventResult(gs, c) ==
    ~(c = "q" /\ gs \in {STATE_MENU, STATE_EXAMPLE})

\* g_data->pos += 1; if(g_data->pos > SIZE) g_data->pos = 0;
Advance(p) == IF p + 1 > SIZE THEN 0 ELSE p + 1

\* draw_example reads path[pos - 1] and path[pos] of int path[SIZE + 1].
PathIndex(k) == k >= 0 /\ k <= SIZE

\* What draw() may do: draw_example with an index outside path is undefined
\* (it goes on with whatever was read, or it crashes).
DrawOutcomes(gs, D, g) ==
    IF gs = STATE_EXAMPLE /\ ~(PathIndex(D[g].pos - 1) /\ PathIndex(D[g].pos))
    THEN {"ok", "crash"}
    ELSE {"ok"}

\* bool running = true; g_data = init_tsp_data(); scr_clear(); draw();
ML_Enter ==
    /\ ml_pc = "ml_entry"
    /\ running' = TRUE
    /\ \E p \in InitPosValues :
           /\ tsp_datas' = init_tsp_data(tsp_datas, p)
           /\ g_data' = Len(tsp_datas')
    /\ \E o \in DrawOutcomes(g_state, tsp_datas', g_data') :
           ml_pc' = IF o = "ok" THEN "ml_events" ELSE "ml_crash"
    /\ UNCHANGED <<g_state, ch, keys, solvervars>>

\* running = handle_events();
ML_HandleEvents ==
    /\ ml_pc = "ml_events"
    /\ keys < MaxKeys
    /\ \E c \in Keys, p \in InitPosValues :
           LET r == EventData(tsp_datas, g_data, g_state, c, p)
           IN  /\ ch' = c
               /\ tsp_datas' = r.datas
               /\ g_data' = r.g
               /\ g_state' = EventState(g_state, c)
               /\ running' = EventResult(g_state, c)
    /\ keys' = keys + 1
    /\ ml_pc' = "ml_update"
    /\ UNCHANGED solvervars

\* update();
ML_Update ==
    /\ ml_pc = "ml_update"
    /\ tsp_datas' =
           IF g_state = STATE_EXAMPLE
           THEN [tsp_datas EXCEPT ![g_data].pos = Advance(@)]
           ELSE tsp_datas
    /\ ml_pc' = "ml_draw"
    /\ UNCHANGED <<g_state, g_data, running, ch, keys, solvervars>>

\* draw(); and the test of while(running).
ML_Draw ==
    /\ ml_pc = "ml_draw"
    /\ \E o \in DrawOutcomes(g_state, tsp_datas, g_data) :
           ml_pc' = IF o = "crash" THEN "ml_crash"
                    ELSE IF running THEN "ml_events"
                    ELSE "ml_cleanup"
    /\ UNCHANGED <<g_state, g_data, tsp_datas, running, ch, keys, solvervars>>

\* Mutant of ML_Return: g_data is not destroyed.
ML_Return_NoDestroy ==
    /\ ml_pc = "ml_cleanup"
    /\ ml_pc' = "ml_returned"
    /\ UNCHANGED <<tsp_datas, g_state, g_data, running, ch, keys, solvervars>>

\* destroy_tsp_data(g_data); return true;
ML_Return ==
    /\ ml_pc = "ml_cleanup"
    /\ tsp_datas' = destroy_tsp_data(tsp_datas, g_data)
    /\ ml_pc' = "ml_returned"
    /\ UNCHANGED <<g_state, g_data, running, ch, keys, solvervars>>

NextLoop ==
    \/ ML_Enter
    \/ ML_HandleEvents
    \/ ML_Update
    \/ ML_Draw
    \/ ML_Return

\* The program of main_loop: the build of SmallSIZE nodes; the solvers are
\* not called by main_loop itself.
InitLoop ==
    /\ SIZE = SmallSIZE
    /\ dist = CostMatrix(SIZE, {}, <<>>)
    /\ start = 0
    /\ InitLocals
    /\ InitGlobals
    /\ ml_pc = "ml_entry"

SpecLoop == InitLoop /\ [][NextLoop]_vars

----------------------------------------------------------------------------
(* Reference definitions of the properties *)

\* The first SIZE entries of p hold every node exactly once.
IsPermutation(p) ==
    \A k \in Nodes : Cardinality({i \in Nodes : p[i] = k}) = 1

\* The edges p[i] -> p[i+1] from position i to the last position.
RECURSIVE PathCost(_, _, _)
PathCost(d, p, i) ==
    IF i >= SIZE - 1 THEN 0 ELSE d[p[i]][p[i + 1]] + PathCost(d, p, i + 1)

\* The SIZE edges of the closed cycle of p.
CycleCost(d, p) == PathCost(d, p, 0) + d[p[SIZE - 1]][p[0]]

\* Every ordering of the nodes that begins with s.
Tours(s) == {p \in [Nodes -> Nodes] : p[0] = s /\ IsPermutation(p)}

\* The cost of the cheapest Hamiltonian cycle, by enumeration.
BruteForceCost(d, s) ==
    LET costs == {CycleCost(d, p) : p \in Tours(s)}
    IN  CHOOSE c \in costs : \A c2 \in costs : c <= c2

Asymmetric(d) == \E i \in Nodes, j \in Nodes : d[i][j] # d[j][i]

NNReturned == nn_ret.kind = "path"
HKReturned == pc = "done" /\ hk_ret.kind = "path"
\* The first SIZE entries of a returned path, in order.
Visits(p) == [k \in 1 .. SIZE |-> p[k - 1]]

\* The fill loop has just ended: every row of dp and prev is final.
FillDone == pc = "hk_fill" /\ subset = NumSubsets

\* The nodes of a subset mask.
Members(ss) == {k \in Nodes : HasBit(ss, k)}

\* Every order in which the nodes of ss other than s and last can be visited.
Orders(ss, s, last) ==
    LET mid == Members(ss) \ {s, last}
    IN  {f \in [1 .. Cardinality(mid) -> mid] :
            \A a \in DOMAIN f, b \in DOMAIN f : f[a] = f[b] => a = b}

\* The cost of the path s, f[k], f[k+1], .., last from position k on, where
\* from is the node before f[k].
RECURSIVE WalkCost(_, _, _, _, _)
WalkCost(d, f, k, from, last) ==
    IF k > Len(f) THEN d[from][last]
    ELSE d[from][f[k]] + WalkCost(d, f, k + 1, f[k], last)

\* The least cost of a simple path from s through exactly the nodes of ss to
\* last, by enumeration.
MinPathCost(d, s, ss, last) ==
    LET costs == {WalkCost(d, f, 1, s, last) : f \in Orders(ss, s, last)}
    IN  CHOOSE c \in costs : \A c2 \in costs : c <= c2

\* The nodes i of subset \ {last} through which the final dp[ss][last] is
\* attained.
Attaining(ss, last) ==
    {i \in Members(ss) \ {last} :
        /\ dp[FlipBit(ss, last)][i] # INT_MAX
        /\ dp[FlipBit(ss, last)][i] + dist[i][last] = dp[ss][last]}

\* The closing loop has just ended: the backtrack loop has not yet run.
CloseDone == pc = "hk_back" /\ hk_i = SIZE - 1

\* The cost of the cycle that ends the path at last, from the final dp.
ClosedCost(last) == dp[FullSubset][last] + dist[last][start]

\* draw() is about to run draw_example.
DrawsExample == ml_pc = "ml_draw" /\ g_state = STATE_EXAMPLE

\* g_data points to a TSP_Data that has not been destroyed.
DataLive == g_data # NULL /\ tsp_datas[g_data].st = "live"

HKBlocks ==
    {tabs.dp, tabs.prev} \cup {rows[i].dp : i \in DOMAIN rows}
                         \cup {rows[i].prev : i \in DOMAIN rows}

----------------------------------------------------------------------------
(* The claims *)

\* C1: the cost held_karp(dist, start) returns is the minimum, over all
\* orderings of the nodes that begin with start, of the cost of the closed
\* cycle.
C1_HeldKarpCostIsMinimum ==
    HKReturned => hk_ret.cost = BruteForceCost(dist, start)

\* C1 witness: held_karp has returned for a start other than node 0 on a
\* matrix whose cycles do not all cost the same.
C1_Witness ==
    /\ HKReturned
    /\ start # 0
    /\ \E p \in Tours(start), q \in Tours(start) :
           CycleCost(dist, p) # CycleCost(dist, q)

\* C2: the path held_karp returns has path[0] = start and its first SIZE
\* entries hold every node 0..SIZE-1 exactly once.
C2_HeldKarpPathIsPermutation ==
    HKReturned =>
        /\ hk_ret.path[0] = start
        /\ \A k \in Nodes :
               Cardinality({i \in 0 .. SIZE - 1 : hk_ret.path[i] = k}) = 1

\* C2 witness: held_karp has returned a path from a start other than node 0
\* that does not visit the other nodes in increasing order.
C2_Witness ==
    /\ HKReturned
    /\ start # 0
    /\ \E i \in 1 .. SIZE - 2 : hk_ret.path[i] > hk_ret.path[i + 1]

\* C3: for each solver the returned cost is the sum of dist[path[i]][path[i+1]]
\* for i = 0..SIZE-2 plus the closing edge dist[path[SIZE-1]][path[0]] of the
\* returned path.
C3_CostIsCycleSum ==
    /\ NNReturned => nn_ret.cost = CycleCost(dist, nn_ret.path)
    /\ HKReturned => hk_ret.cost = CycleCost(dist, hk_ret.path)

\* C3 witness: both solvers have returned, with different paths and
\* different costs, on an asymmetric matrix.
C3_Witness ==
    /\ NNReturned
    /\ HKReturned
    /\ Asymmetric(dist)
    /\ nn_ret.cost # hk_ret.cost
    /\ \E i \in Nodes : nn_ret.path[i] # hk_ret.path[i]

\* C4 (as claimed): whatever the magnitude of the off-diagonal entries, the
\* path nearest_neighbor returns is a permutation of 0..SIZE-1.
C4_NearestNeighborPathIsPermutation ==
    NNReturned => IsPermutation(nn_ret.path)

C6_HeldKarpAtMostNearestNeighbor ==
    (NNReturned /\ HKReturned) => hk_ret.cost <= nn_ret.cost

\* C7: held_karp returns the same cost for every two start nodes: the cost
\* returned for this run's start is the cost held_karp computes from every
\* other start.
C7_HeldKarpCostIndependentOfStart ==
    HKReturned =>
        \A s2 \in Nodes \ {start} : hk_ret.cost = HeldKarpCost(dist, s2)

\* C7 witness: held_karp has returned for a start other than node 0 on an
\* asymmetric matrix whose cycles do not all cost the same.
C7_Witness ==
    /\ HKReturned
    /\ start = SIZE - 1
    /\ Asymmetric(dist)
    /\ \E p \in Tours(0) : CycleCost(dist, p) > hk_ret.cost

\* C8: once an allocation of dp, prev or one of their rows has failed,
\* held_karp has returned NULL and no table entry, result, end, cur or path
\* entry has been written.
C8_AllocationFailureReturnsNull ==
    alloc_failed =>
        /\ pc = "hk_null"
        /\ hk_ret.kind = "null"
        /\ dp = <<>> /\ prev = <<>>
        /\ subset = UNINIT /\ end = UNINIT /\ cur = UNINIT /\ hk_i = UNINIT
        /\ result = INT_MAX
        /\ \A k \in DOMAIN hk_path : hk_path[k] = UNINIT

\* C8 witness: a row allocation failed after earlier rows were allocated.
C8_Witness ==
    /\ alloc_failed
    /\ \E i \in DOMAIN rows :
           /\ i > 0
           /\ rows[i].prev = "null"
           /\ rows[i].dp = "live"
           /\ rows[i - 1].dp = "live"

\* C9 (as claimed): on every return of held_karp, successful or after a
\* failed allocation, every block allocated for dp and prev has been freed
\* exactly once.
C9_EveryBlockFreedOnReturn ==
    (pc \in {"hk_null", "done"}) => HKBlocks \subseteq {"none", "null", "freed"}

\* C10 (as claimed): a build whose SIZE exceeds what the int subset mask can
\* hold is rejected with a configuration error before held_karp allocates.
C10_WideSizeRejectedBeforeAllocation ==
    (SIZE > MaxMaskNodes /\ pc \notin {"nn_entry", "nn_loop", "hk_entry"}) =>
        /\ hk_ret.kind = "config_error"
        /\ tabs.dp = "none" /\ tabs.prev = "none"

\* C11 (as claimed): for the four-node instance and start 0, held_karp
\* returns the path 0, 1, 3, 2 with cost 80.
C11_FourNodesPathAsClaimed ==
    (HKReturned /\ dist = FourNodes /\ start = 0) =>
        /\ Visits(hk_ret.path) = <<0, 1, 3, 2>>
        /\ hk_ret.cost = 80

\* C11 (amended): for the four-node instance and start 0, held_karp returns
\* the path 0, 2, 3, 1 (the claimed cycle walked the other way round) with
\* cost 80.
C11_FourNodesPath ==
    (HKReturned /\ dist = FourNodes /\ start = 0) =>
        /\ Visits(hk_ret.path) = <<0, 2, 3, 1>>
        /\ hk_ret.cost = 80

\* C11 witness: held_karp has returned for the four-node instance.
C11_Witness == HKReturned /\ dist = FourNodes /\ start = 0 /\ SIZE = 4

\* C12 (as claimed): for the five-node line instance and start 0, held_karp
\* returns the path 0, 1, 2, 3, 4 with cost 20.
C12_LinePathAsClaimed ==
    (HKReturned /\ dist = LineNodes /\ start = 0) =>
        /\ Visits(hk_ret.path) = <<0, 1, 2, 3, 4>>
        /\ hk_ret.cost = 20

\* C12 (amended): for the five-node line instance and start 0, held_karp
\* returns the path 0, 4, 3, 2, 1 (the claimed cycle walked the other way
\* round) with cost 20.
C12_LinePath ==
    (HKReturned /\ dist = LineNodes /\ start = 0) =>
        /\ Visits(hk_ret.path) = <<0, 4, 3, 2, 1>>
        /\ hk_ret.cost = 20

\* C12 witness: held_karp has returned for the five-node line instance.
C12_Witness == HKReturned /\ dist = LineNodes /\ start = 0 /\ SIZE = 5

\* C13: for the one-node instance both held_karp and nearest_neighbor return
\* the path 0 with cost 0.
C13_SingleNodeTour ==
    (SIZE = 1 /\ dist = SingleNode) =>
        /\ NNReturned => (Visits(nn_ret.path) = <<0>> /\ nn_ret.cost = 0)
        /\ HKReturned => (Visits(hk_ret.path) = <<0>> /\ hk_ret.cost = 0)

\* C13 witness: both solvers have returned for the one-node instance.
C13_Witness == SIZE = 1 /\ dist = SingleNode /\ NNReturned /\ HKReturned

\* C14: no step of nearest_neighbor or of held_karp, on the way to a
\* successful return or to a return after a failed allocation, changes an
\* entry of the caller's cost matrix.
C14_CostMatrixNeverWritten == [][dist' = dist]_vars

\* C14 witness: nearest_neighbor has returned, and held_karp has returned
\* after a failed row allocation, on a matrix that is not uniform.
C14_Witness ==
    /\ NNReturned
    /\ pc = "hk_null"
    /\ tabs.dp = "live"
    /\ \E i \in Nodes, j \in Nodes : dist[i][j] = NN_INIT_COST

\* C15: when the fill loop has ended, for every subset that contains the
\* start and every node last of it other than the start, dp[subset][last] is
\* the least cost of a simple path from the start through exactly the nodes
\* of the subset to last.
C15_DpIsMinimumPathCost ==
    FillDone =>
        \A ss \in 0 .. NumSubsets - 1 :
            HasBit(ss, start) =>
                \A last \in Members(ss) \ {start} :
                    dp[ss][last] = MinPathCost(dist, start, ss, last)

\* C15 witness: the fill has ended for a start other than node 0 and there
\* is a path through all nodes that costs more than the dp entry of its end.
C15_Witness ==
    /\ FillDone
    /\ start # 0
    /\ \E last \in Nodes \ {start} :
           \E f \in Orders(FullSubset, start, last) :
               WalkCost(dist, f, 1, start, last) > dp[FullSubset][last]

\* C16: the fill loop takes the subsets in strictly increasing order, every
\* row its transitions read belongs to a smaller subset, and a step of the
\* loop writes dp only in the row of its own subset, which no transition of
\* that subset or of an earlier one has read: no dp entry is written after
\* it has been read.
C16_RowsFinalWhenRead ==
    [][(pc = "hk_fill" /\ pc' = "hk_fill") =>
          /\ subset' = subset + 1
          /\ \A r \in RowsRead(subset) : r < subset
          /\ \A r \in 0 .. NumSubsets - 1 :
                 dp'[r] # dp[r] =>
                     /\ r = subset
                     /\ \A ss \in 0 .. subset : r \notin RowsRead(ss)]_vars

\* C16 witness: the loop is about to take a subset whose transitions read a
\* row that an earlier step of the loop has lowered.
C16_Witness ==
    /\ pc = "hk_fill"
    /\ subset < NumSubsets
    /\ \E r \in RowsRead(subset) : \E k \in Nodes \ {start} :
           dp[r][k] # INT_MAX

\* C17: throughout the fill, prev[subset][last] has been written exactly for
\* the entries dp[subset][last] that have been lowered; and when the fill
\* has ended, for every finite dp[subset][last] of a subset other than
\* {start}, prev[subset][last] is the lowest-indexed node i of
\* subset \ {last} with dp[subset \ {last}][i] + dist[i][last] =
\* dp[subset][last].
C17_PrevIsLowestAttaining ==
    (pc = "hk_fill") =>
        \A ss \in 0 .. NumSubsets - 1 : \A last \in Nodes :
            /\ (prev[ss][last] # UNINIT) = (dp[ss][last] # InitDp(start)[ss][last])
            /\ (FillDone /\ dp[ss][last] # INT_MAX /\ ss # StartSubset(start)) =>
                   /\ prev[ss][last] \in Attaining(ss, last)
                   /\ \A i \in Attaining(ss, last) : prev[ss][last] <= i

\* C17 witness: the fill has ended for a start other than node 0 and some
\* entry of a matrix that is not uniform is attained through two different
\* nodes.
C17_Witness ==
    /\ FillDone
    /\ start # 0
    /\ Asymmetric(dist)
    /\ \E ss \in 0 .. NumSubsets - 1 : \E last \in Members(ss) :
           /\ dp[ss][last] # INT_MAX
           /\ \E i \in Attaining(ss, last), j \in Attaining(ss, last) :
                  i < j

\* C18: in a build of two nodes or more, when the closing loop has ended
\* result is the minimum over the nodes last other than the start of
\* dp[full][last] + dist[last][start], and end is the lowest-indexed such
\* last attaining it; end is never the start.
C18_ClosingPicksLowestMinimum ==
    (CloseDone /\ SIZE >= 2) =>
        /\ end \in Nodes \ {start}
        /\ result = ClosedCost(end)
        /\ \A last \in Nodes \ {start} :
               /\ result <= ClosedCost(last)
               /\ last < end => result < ClosedCost(last)

\* C18 witness: the closing loop has ended for a start that is neither the
\* first nor the last node, two nodes attain the minimum, and a node below
\* end does not.
C18_Witness ==
    /\ CloseDone
    /\ SIZE >= 2
    /\ start \notin {0, SIZE - 1}
    /\ \E a \in Nodes \ {start}, b \in Nodes \ {start} :
           /\ a < end /\ ClosedCost(a) > result
           /\ b > end /\ ClosedCost(b) = result

\* C19: at the start of every iteration of the reconstruction, end is a node
\* of cur other than the start, dp[cur][end] is finite and prev[cur][end] has
\* been written; every iteration removes the bit of end, and no other, from
\* cur; and after the SIZE - 1 iterations cur is the subset {start} and end
\* is the start.
C19_ReconstructionWalksBack ==
    /\ [](pc = "hk_back" =>
             IF hk_i > 0
             THEN /\ end \in Nodes \ {start}
                  /\ HasBit(cur, end)
                  /\ dp[cur][end] # INT_MAX
                  /\ prev[cur][end] # UNINIT
             ELSE /\ cur = Shl1(start)
                  /\ end = start)
    /\ [][(pc = "hk_back" /\ pc' = "hk_back") =>
              /\ cur' = cur - Shl1(end)
              /\ hk_i' = hk_i - 1]_vars

\* C19 witness: the SIZE - 1 iterations have run for a start other than
\* node 0 and have not met the nodes in decreasing order.
C19_Witness ==
    /\ pc = "hk_back"
    /\ hk_i = 0
    /\ SIZE > 2
    /\ start # 0
    /\ cur = Shl1(start)
    /\ \E k \in 1 .. SIZE - 2 : hk_path[k] > hk_path[k + 1]

\* C20 (as claimed): held_karp never adds an edge cost to a dp entry that is
\* INT_MAX, neither in the transitions of the fill loop nor in the closing
\* loop.
C20_NoSentinelOperand ==
    /\ (pc = "hk_fill" /\ subset < NumSubsets) =>
           INT_MAX \notin TransitionOperands(dp, subset)
    /\ (pc \in {"hk_back", "done"}) => INT_MAX \notin ClosingOperands(dp)

\* C21 (as claimed): every step of nearest_neighbor appends the unvisited
\* node with the least dist[cur][i], the lowest-indexed one among those tied
\* for it, marks that node visited and makes it the current node.
C21_StepTakesNearestUnvisited ==
    [][(pc = "nn_loop" /\ nn_i < SIZE /\ nn_i' = nn_i + 1) =>
          LET unvisited == {k \in Nodes : ~visited[k]}
              next == nn_path'[nn_i]
          IN  /\ next \in unvisited
              /\ \A k \in unvisited :
                     /\ dist[nn_cur][next] <= dist[nn_cur][k]
                     /\ k < next => dist[nn_cur][next] < dist[nn_cur][k]
              /\ visited' = [visited EXCEPT ![next] = TRUE]
              /\ nn_cur' = next]_vars

\* C22: from the initialisation of the table on, dp[subset][last] is INT_MAX
\* for every subset without the start, for every last outside subset, and
\* for last = start in every subset other than {start}; with two nodes or
\* more dp[full][start] is INT_MAX when the closing loop runs.
C22_SentinelEntries ==
    (pc \in {"hk_fill", "hk_back", "done"}) =>
        /\ \A ss \in 0 .. NumSubsets - 1 : \A last \in Nodes :
               (\/ ~HasBit(ss, start)
                \/ ~HasBit(ss, last)
                \/ (last = start /\ ss # Shl1(start))) =>
                   dp[ss][last] = INT_MAX
        /\ (FillDone /\ SIZE >= 2) => dp[FullSubset][start] = INT_MAX

\* C22 witness: the fill has ended for a start other than node 0, with the
\* entries of the other nodes in the full row lowered.
C22_Witness ==
    /\ FillDone
    /\ SIZE >= 2
    /\ start # 0
    /\ \A last \in Nodes \ {start} : dp[FullSubset][last] < INT_MAX

\* C23 (as claimed): whenever draw_example runs, 1 <= pos <= SIZE, so that
\* path[pos - 1] and path[pos] are entries of path[0..SIZE].
C23_PosInsidePath ==
    DrawsExample =>
        /\ 1 <= tsp_datas[g_data].pos
        /\ tsp_datas[g_data].pos <= SIZE

\* C24: draw_example runs only on a g_data for which generate_example has
\* been called since its init_tsp_data; g_state becomes STATE_EXAMPLE only by
\* the menu choice 'a', which generates the example, and after the 'n' key
\* the new g_data holds an example before it is updated or drawn.
C24_DrawnExampleWasGenerated ==
    /\ []((g_state = STATE_EXAMPLE /\ ml_pc \in {"ml_update", "ml_draw"}) =>
             (DataLive /\ tsp_datas[g_data].generated))
    /\ [][(g_state # STATE_EXAMPLE /\ g_state' = STATE_EXAMPLE) =>
              /\ g_state = STATE_MENU /\ ch' = "a"
              /\ tsp_datas'[g_data'].generated]_vars

\* C24 witness: draw_example is about to run on the second TSP_Data, made by
\* the 'n' key.
C24_Witness ==
    /\ DrawsExample
    /\ ch = "n"
    /\ g_data = 2
    /\ tsp_datas[1].st = "freed"

\* C25: no TSP_Data is destroyed twice, every TSP_Data other than g_data has
\* been destroyed, update and draw run on a g_data that is not destroyed,
\* and when main_loop has returned every TSP_Data has been destroyed.
C25_DataDestroyedExactlyOnce ==
    (ml_pc \notin {"ml_off", "ml_entry"}) =>
        /\ \A i \in DOMAIN tsp_datas : tsp_datas[i].st \in {"live", "freed"}
        /\ \A i \in DOMAIN tsp_datas : i # g_data => tsp_datas[i].st = "freed"
        /\ (ml_pc \in {"ml_events", "ml_update", "ml_draw", "ml_cleanup"}) =>
               DataLive
        /\ (ml_pc = "ml_returned") =>
               \A i \in DOMAIN tsp_datas : tsp_datas[i].st = "freed"

\* C25 witness: main_loop has returned after the 'n' key was used twice.
C25_Witness ==
    /\ ml_pc = "ml_returned"
    /\ Len(tsp_datas) = 3
    /\ g_data = 3

\* C26: g_state changes only from STATE_MENU to STATE_EXAMPLE on 'a' and to
\* STATE_INFO on 'b', and from STATE_INFO to STATE_MENU on any key, 'q'
\* included, which does not end the loop there; STATE_EXAMPLE is never left;
\* running becomes false exactly on 'q' in STATE_MENU or STATE_EXAMPLE, and
\* the loop is left only after the update and the draw that follow.
C26_StateMachine ==
    /\ [][IF ml_pc = "ml_events" /\ ml_pc' # ml_pc
           THEN /\ g_state' =
                       (IF g_state = STATE_MENU /\ ch' = "a" THEN STATE_EXAMPLE
                        ELSE IF g_state = STATE_MENU /\ ch' = "b" THEN STATE_INFO
                        ELSE IF g_state = STATE_INFO THEN STATE_MENU
                        ELSE g_state)
                /\ running' =
                       ~(ch' = "q" /\ g_state \in {STATE_MENU, STATE_EXAMPLE})
                /\ ml_pc' = "ml_update"
           ELSE /\ g_state' = g_state
                /\ (ml_pc # "ml_entry") => running' = running
                /\ (ml_pc' = "ml_cleanup") => (ml_pc = "ml_draw" /\ ~running)
                /\ (ml_pc = "ml_draw" /\ ~running) =>
                       ml_pc' \in {"ml_cleanup", "ml_crash"}]_vars
    /\ []((ml_pc \in {"ml_cleanup", "ml_returned"}) =>
             (ch = "q" /\ g_state \in {STATE_MENU, STATE_EXAMPLE}))

\* C26 witness: 'q' has been read in STATE_INFO: g_state is STATE_MENU again
\* and the loop goes on.
C26_Witness ==
    /\ ml_pc = "ml_update"
    /\ ch = "q"
    /\ running
    /\ g_state = STATE_MENU

====
